---- MODULE Spec2Model ----
(***************************************************************************)
(* Model of the Telegram Stars donation bot: the webhook handler           *)
(* (src/api/telegram.js) and the webhook registration handler              *)
(* (src/unnamed/part_000).                                                 *)
(*                                                                         *)
(* JavaScript strings that the code inspects (startsWith, split, Number)   *)
(* are sequences of one-character strings.  A value that may be undefined  *)
(* is a sequence of length at most one: <<>> is undefined, <<v>> is v.     *)
(***************************************************************************)
EXTENDS Integers, Sequences, FiniteSets, TLC

VARIABLES env, req, update, pc, calls, http, result, response, auth, error, console, completion, other

vars == <<env, req, update, pc, calls, http, result, response, auth, error, console, completion, other>>

(***************************************************************************)
(* Optional values.                                                        *)
(***************************************************************************)
Undefined == <<>>

Some(v) == <<v>>

IsDefined(o) == o # <<>>

Get(o) == o[1]

(***************************************************************************)
(* Strings as character sequences.                                         *)
(***************************************************************************)
DigitChars == <<"0", "1", "2", "3", "4", "5", "6", "7", "8", "9">>

IsDigit(c) == \E i \in 1..10 : DigitChars[i] = c

DigitVal(c) == (CHOOSE i \in 1..10 : DigitChars[i] = c) - 1

AllDigits(s) == Len(s) > 0 /\ \A i \in 1..Len(s) : IsDigit(s[i])

RECURSIVE DecimalValue(_)
DecimalValue(s) ==
    IF s = <<>> THEN 0
    ELSE 10 * DecimalValue(SubSeq(s, 1, Len(s) - 1)) + DigitVal(s[Len(s)])

RECURSIVE Pow10(_)
Pow10(n) == IF n = 0 THEN 1 ELSE 10 * Pow10(n - 1)

RECURSIVE Trim(_)
Trim(s) ==
    IF s = <<>> THEN s
    ELSE IF s[1] = " " THEN Trim(Tail(s))
    ELSE IF s[Len(s)] = " " THEN Trim(SubSeq(s, 1, Len(s) - 1))
    ELSE s

startsWith(s, p) == Len(s) >= Len(p) /\ SubSeq(s, 1, Len(p)) = p

\* String.prototype.split(sep) for a one-character separator.
RECURSIVE split(_, _)
split(s, sep) ==
    IF \A i \in 1..Len(s) : s[i] # sep THEN <<s>>
    ELSE LET k == CHOOSE i \in 1..Len(s) :
                      s[i] = sep /\ \A j \in 1..(i - 1) : s[j] # sep
         IN <<SubSeq(s, 1, k - 1)>> \o split(SubSeq(s, k + 1, Len(s)), sep)

(***************************************************************************)
(* Number(string).  The result is [kind, v]: kind "num" with the integer   *)
(* v, kind "inf" (plus or minus Infinity), or kind "nan".  The grammar     *)
(* covered is: surrounding blanks, an optional sign, decimal digits, an    *)
(* optional exponent e<digits>, and the literal Infinity; the empty        *)
(* (blank) string is 0 and every other string over the model's alphabet    *)
(* is NaN.  The alphabet has no '.', no hexadecimal prefix and no negative *)
(* exponent, so every finite result is an integer.                         *)
(***************************************************************************)
NaN == [kind |-> "nan", v |-> 0]

Num(n) == [kind |-> "num", v |-> n]

InfinityChars == <<"I", "n", "f", "i", "n", "i", "t", "y">>

UnsignedNumber(s) ==
    IF s = InfinityChars THEN [kind |-> "inf", v |-> 1]
    ELSE IF AllDigits(s) THEN Num(DecimalValue(s))
    ELSE LET parts == split(s, "e")
         IN IF Len(parts) = 2 /\ AllDigits(parts[1]) /\ AllDigits(parts[2])
            THEN Num(DecimalValue(parts[1]) * Pow10(DecimalValue(parts[2])))
            ELSE NaN

Number(s) ==
    LET t == Trim(s)
    IN IF t = <<>> THEN Num(0)
       ELSE IF t[1] = "-"
            THEN LET u == UnsignedNumber(Tail(t))
                 IN [kind |-> u.kind, v |-> 0 - u.v]
       ELSE IF t[1] = "+" THEN UnsignedNumber(Tail(t))
       ELSE UnsignedNumber(t)

\* Number.isFinite
isFinite(n) == n.kind = "num"

\* Template-literal formatting of an integer: `${a}`.
RECURSIVE NaturalToString(_)
NaturalToString(n) ==
    IF n < 10 THEN <<DigitChars[n + 1]>>
    ELSE NaturalToString(n \div 10) \o <<DigitChars[(n % 10) + 1]>>

NumberToString(n) == IF n < 0 THEN <<"-">> \o NaturalToString(0 - n) ELSE NaturalToString(n)

(***************************************************************************)
(* Module-level constants of both handlers, read from the environment.     *)
(***************************************************************************)
AMOUNTS == <<500, 1000, 1500, 2000, 3000, 4000, 5000>>

\* Array.prototype.includes on AMOUNTS, for the result of Number().
AmountsIncludes(n) == n \in {Num(AMOUNTS[i]) : i \in 1..Len(AMOUNTS)}

numEnv(v, def) ==
    IF ~IsDefined(v) \/ Get(v) = <<>> THEN def
    ELSE LET n == Number(Get(v))
         IN IF isFinite(n) THEN n.v ELSE def

BOT_TOKEN == env.BOT_TOKEN

ADMIN_USER_ID == numEnv(env.ADMIN_USER_ID, 0)

LOG_CHAT_ID == numEnv(env.LOG_CHAT_ID, 0)

WEBHOOK_SECRET == IF IsDefined(env.WEBHOOK_SECRET) THEN Get(env.WEBHOOK_SECRET) ELSE ""

SETUP_KEY == IF IsDefined(env.SETUP_KEY) THEN Get(env.SETUP_KEY) ELSE ""

\* JavaScript truthiness of a string and of a number.
TruthyString(o) == IsDefined(o) /\ Get(o) # ""

TruthyNumber(o) == IsDefined(o) /\ Get(o) # 0

(***************************************************************************)
(* Input domains.                                                          *)
(***************************************************************************)
Chars(str) ==
    CASE str = "/start"      -> <<"/", "s", "t", "a", "r", "t">>
      [] str = "/startx"     -> <<"/", "s", "t", "a", "r", "t", "x">>
      [] str = "/donate"     -> <<"/", "d", "o", "n", "a", "t", "e">>
      [] str = "/donate 5"   -> <<"/", "d", "o", "n", "a", "t", "e", " ", "5">>
      [] str = "/balance"    -> <<"/", "b", "a", "l", "a", "n", "c", "e">>
      [] str = "/balance@b"  -> <<"/", "b", "a", "l", "a", "n", "c", "e", "@", "b">>
      [] str = "/tx"         -> <<"/", "t", "x">>
      [] str = "/tx 3"       -> <<"/", "t", "x", " ", "3">>
      [] str = "hi"          -> <<"h", "i">>
      [] str = ""            -> <<>>
      [] str = "donate:"     -> <<"d", "o", "n", "a", "t", "e", ":">>
      [] str = "donate"      -> <<"d", "o", "n", "a", "t", "e">>
      [] str = "other:500"   -> <<"o", "t", "h", "e", "r", ":", "5", "0", "0">>
      [] str = "500"         -> <<"5", "0", "0">>
      [] str = "5000"        -> <<"5", "0", "0", "0">>
      [] str = "999"         -> <<"9", "9", "9">>
      [] str = "5e2"         -> <<"5", "e", "2">>
      [] str = " 500"        -> <<" ", "5", "0", "0">>
      [] str = "500:x"       -> <<"5", "0", "0", ":", "x">>
      [] str = "ten"         -> <<"t", "e", "n">>
      [] str = "-500"        -> <<"-", "5", "0", "0">>
      [] str = "0"           -> <<"0">>
      [] str = "7"           -> <<"7">>
      [] str = "-5"          -> <<"-", "5">>
      [] str = "-100"        -> <<"-", "1", "0", "0">>
      [] str = "abc"         -> <<"a", "b", "c">>
      [] str = "Infinity"    -> InfinityChars

DonatePrefix == Chars("donate:")

\* process.env of one deployment.
EnvAdminValues ==
    {Undefined, Some(Chars("")), Some(Chars("0")), Some(Chars("7")),
     Some(Chars("-5")), Some(Chars("abc")), Some(Chars("Infinity"))}

EnvLogValues == {Undefined, Some(Chars("-100"))}

Environments ==
    [BOT_TOKEN : {Undefined, Some("123:TOKEN")},
     ADMIN_USER_ID : EnvAdminValues,
     LOG_CHAT_ID : EnvLogValues,
     WEBHOOK_SECRET : {Undefined, Some("s3cret")},
     SETUP_KEY : {Undefined, Some("k3y")}]

\* Telegram Update objects (the request body of the webhook).
ChatIds == {100}

UserIds == {7, 8, -5, 0}

Froms == {Undefined} \cup {Some([id |-> i, first_name |-> "Ann", username |-> Undefined]) : i \in UserIds}

MainFrom == Some([id |-> 8, first_name |-> "Bob", username |-> Some("bob")])

Payments ==
    {[total_amount |-> 500, invoice_payload |-> "donate_1000_1_ab",
      telegram_payment_charge_id |-> "charge-1"]}

Texts ==
    {Chars("/start"), Chars("/startx"), Chars("/donate"), Chars("/donate 5"),
     Chars("/balance"), Chars("/balance@b"), Chars("/tx"), Chars("/tx 3"),
     Chars("hi"), Chars("")}

AdminTexts == {t \in Texts : startsWith(t, Chars("/balance")) \/ startsWith(t, Chars("/tx"))}

\* Variant: the token is written with an underscore.
Button_Underscore(a) ==
    [text |-> NumberToString(a) \o <<" ", "*">>,
     callback_data |-> <<"d", "o", "n", "a", "t", "e", "_">> \o NumberToString(a)]

\* { text: `${a} *`, callback_data: `donate:${a}` }
Button(a) ==
    [text |-> NumberToString(a) \o <<" ", "*">>,
     callback_data |-> DonatePrefix \o NumberToString(a)]

\* Variant: the loop stops before an incomplete last row.
donateKeyboard_FullRowsOnly ==
    [inline_keyboard |->
        [r \in 1..(Len(AMOUNTS) \div 2) |->
            [k \in 1..2 |-> Button(AMOUNTS[2 * (r - 1) + k])]]]

\* The rows of the inline keyboard: AMOUNTS.slice(i, i + 2) for i = 0, 2, ...
donateKeyboard ==
    [inline_keyboard |->
        [r \in 1..((Len(AMOUNTS) + 1) \div 2) |->
            [k \in 1..(IF 2 * r <= Len(AMOUNTS) THEN 2 ELSE 1) |->
                Button(AMOUNTS[2 * (r - 1) + k])]]]

\* The tokens of the keyboard's buttons.
KeyboardTokens ==
    LET rows == donateKeyboard.inline_keyboard
    IN UNION {{rows[r][k].callback_data : k \in DOMAIN rows[r]} : r \in DOMAIN rows}

AmountStrings ==
    {Chars("500"), Chars("5000"), Chars("999"), Chars("5e2"), Chars(" 500"),
     Chars("500:x"), Chars("ten"), Chars("-500"), Chars(""), Chars("0")}

Tokens ==
    {DonatePrefix \o a : a \in AmountStrings}
        \cup {Chars("donate"), Chars("other:500"), Chars("")}
        \cup KeyboardTokens

Message(chat, from, sp, text) ==
    [chat |-> chat, from |-> from, successful_payment |-> sp, text |-> text]

Chats == {Some([id |-> c]) : c \in ChatIds}

PaymentMessages ==
    {Message(c, f, Some(p), Undefined) :
        c \in Chats, f \in {Undefined, MainFrom}, p \in Payments}

TextMessages ==
    {Message(c, f, Undefined, Some(t)) : c \in Chats, f \in Froms, t \in AdminTexts}
        \cup {Message(c, MainFrom, Undefined, Some(t)) : c \in Chats, t \in Texts \ AdminTexts}

\* Messages outside the platform's schema (no chat), and a message with
\* neither a payment nor a text.
OddMessages ==
    {Message(Undefined, MainFrom, Some(p), Undefined) : p \in Payments}
        \cup {Message(Undefined, MainFrom, Undefined, Some(Chars("/balance"))),
              Message(Undefined, MainFrom, Undefined, Some(Chars("hi")))}
        \cup {Message(c, MainFrom, Undefined, Undefined) : c \in Chats}

CallbackQueries ==
    [id : {"cb-1"},
     data : {Undefined} \cup {Some(t) : t \in Tokens},
     message : {Undefined} \cup {Some([chat |-> c]) : c \in Chats}]

PreCheckoutQueries == {[id |-> "pcq-1"]}

Update(pcq, msg, cq) == [pre_checkout_query |-> pcq, message |-> msg, callback_query |-> cq]

SomeCallback ==
    Some([id |-> "cb-1", data |-> Some(DonatePrefix \o Chars("500")),
          message |-> Some([chat |-> Some([id |-> 100])])])

BadCallback ==
    Some([id |-> "cb-1", data |-> Some(DonatePrefix \o Chars("999")),
          message |-> Some([chat |-> Some([id |-> 100])])])

\* Updates with exactly one populated variant, as the platform delivers them.
SingleUpdates ==
    {Update(Some(q), Undefined, Undefined) : q \in PreCheckoutQueries}
        \cup {Update(Undefined, Some(m), Undefined) : m \in PaymentMessages \cup TextMessages}
        \cup {Update(Undefined, Undefined, Some(c)) : c \in CallbackQueries}

\* Updates with several populated variants, with none, or with a message
\* outside the schema.
MixedUpdates ==
    {Update(Some(q), Some(m), SomeCallback) :
        q \in PreCheckoutQueries,
        m \in {Message(Some([id |-> 100]), MainFrom, Some(p), Some(Chars("/tx"))) : p \in Payments}}
        \cup {Update(Undefined, Some(Message(Some([id |-> 100]), MainFrom, Some(p), Some(Chars("/start")))), SomeCallback) :
                 p \in Payments}
        \cup {Update(Undefined, Some(Message(Some([id |-> 100]), MainFrom, Undefined, Some(t))), c) :
                 t \in {Chars("hi"), Chars(""), Chars("/start")}, c \in {SomeCallback, BadCallback}}
        \cup {Update(Undefined, Some(m), c) : m \in OddMessages, c \in {Undefined, SomeCallback}}
        \cup {Update(Undefined, Undefined, Undefined)}

Bodies == {Undefined} \cup {Some(u) : u \in SingleUpdates \cup MixedUpdates}

SecretHeaders == {Undefined, Some("s3cret"), Some("wrong")}

WebhookRequests ==
    [handler : {"telegram"}, method : {"POST"}, secret : SecretHeaders, body : Bodies]
        \cup [handler : {"telegram"}, method : {"GET"}, secret : SecretHeaders,
              body : {Undefined, Some(Update(Some([id |-> "pcq-1"]), Undefined, Undefined))}]

SetupRequests ==
    [handler : {"setup"},
     key : {Undefined, Some(""), Some("k3y"), Some("wrong")},
     forwarded : {[host |-> Undefined, proto |-> Undefined],
                  [host |-> Some("bot.example.org"), proto |-> Some("http")]},
     host : {"internal:3000"}]

NoRequest == [handler |-> "none"]

(***************************************************************************)
(* The platform client tg(method, body).  An HTTP exchange ends in a       *)
(* transport failure (fetch rejects) or in a response with a status and a  *)
(* body that res.json() parses (json defined) or fails to parse.           *)
(***************************************************************************)
Json(ok, res, desc) == Some([ok |-> ok, result |-> res, description |-> desc])

HttpResponses ==
    {[transport |-> "failed", status |-> 0, json |-> Undefined],
     [transport |-> "ok", status |-> 200, json |-> Json(TRUE, "result-1", Undefined)],
     [transport |-> "ok", status |-> 400, json |-> Json(FALSE, "", Some("Bad Request: chat not found"))],
     [transport |-> "ok", status |-> 200, json |-> Json(FALSE, "", Undefined)],
     [transport |-> "ok", status |-> 502, json |-> Undefined]}

Call(method, body) == [method |-> method, body |-> body]

\* The outcome of tg(method, body) for the exchange r: a returned result or
\* a thrown error.
tg(method, r) ==
    IF r.transport = "failed"
    THEN [threw |-> TRUE, value |-> "",
          error |-> [name |-> "TypeError", method |-> "", description |-> "fetch failed"]]
    ELSE IF ~IsDefined(r.json) \/ ~Get(r.json).ok
         THEN LET desc == IF IsDefined(r.json) /\ TruthyString(Get(r.json).description)
                          THEN Get(Get(r.json).description)
                          ELSE "Unknown Telegram API error"
              IN [threw |-> TRUE, value |-> "",
                  error |-> [name |-> "Error", method |-> method, description |-> desc]]
         ELSE [threw |-> FALSE, value |-> Get(r.json).result,
               error |-> [name |-> "", method |-> "", description |-> ""]]

\* Variant: any sender passes once a privileged identifier is configured.
isAdmin_AnyUser(userId) == ADMIN_USER_ID > 0

\* Variant: a configured identifier counts as set when it is not zero.
isAdmin_NonZero(userId) == ADMIN_USER_ID # 0 /\ userId = Some(ADMIN_USER_ID)

isAdmin(userId) == ADMIN_USER_ID > 0 /\ userId = Some(ADMIN_USER_ID)

TypeError == [name |-> "TypeError", method |-> "", description |-> "cannot read properties of undefined"]

(***************************************************************************)
(* Steps of a handler: issue an outbound call and suspend at an await,     *)
(* throw into the catch block, or return.                                  *)
(***************************************************************************)
Issue(c, next) ==
    /\ calls' = Append(calls, c)
    /\ pc' = next
    /\ UNCHANGED <<error, completion, console>>

Throw(e) ==
    /\ error' = Some(e)
    /\ pc' = "catch"
    /\ UNCHANGED <<calls, completion, console>>

Return ==
    /\ pc' = "done"
    /\ completion' = "returned"
    /\ UNCHANGED <<calls, error, console>>

Send(status, body) == response' = Append(response, [status |-> status, body |-> body])

(***************************************************************************)
(* State.  The variables req .. completion are the invocation that is      *)
(* running; http is the list of HTTP exchanges its tg calls have had, one  *)
(* per fetch; other is a second invocation of the same function instance,  *)
(* suspended (or not started).                                             *)
(***************************************************************************)
Parked ==
    [req |-> NoRequest, update |-> Undefined, pc |-> "idle", calls |-> <<>>, http |-> <<>>,
     result |-> "", response |-> <<>>, auth |-> Undefined, error |-> Undefined,
     console |-> <<>>, completion |-> "none"]

Init ==
    /\ env \in Environments
    /\ req = NoRequest
    /\ update = Undefined
    /\ pc = "idle"
    /\ calls = <<>>
    /\ http = <<>>
    /\ result = ""
    /\ response = <<>>
    /\ auth = Undefined
    /\ error = Undefined
    /\ console = <<>>
    /\ completion = "none"
    /\ other = Parked

Fresh ==
    /\ update' = Undefined
    /\ calls' = <<>>
    /\ http' = <<>>
    /\ result' = ""
    /\ response' = <<>>
    /\ auth' = Undefined
    /\ error' = Undefined
    /\ console' = <<>>
    /\ completion' = "none"
    /\ UNCHANGED <<env, other>>

\* The runtime invokes the webhook handler for a request.
ReceiveWebhook ==
    /\ pc = "idle"
    /\ \E r \in WebhookRequests : req' = r
    /\ pc' = "entry"
    /\ Fresh

\* The runtime invokes the registration handler for a request.
ReceiveSetup ==
    /\ pc = "idle"
    /\ \E r \in SetupRequests : req' = r
    /\ pc' = "setup_entry"
    /\ Fresh

(***************************************************************************)
(* The webhook handler, src/api/telegram.js.                               *)
(***************************************************************************)
MaxClock == 2

Clock == 1..MaxClock

Nonces == {"9f3a", "17c0"}

\* Variant: the bot token is not checked.
WebhookEntry_NoTokenCheck ==
    /\ pc = "entry"
    /\ IF req.method # "POST"
       THEN Send(200, "ok") /\ Return /\ UNCHANGED update
       ELSE IF WEBHOOK_SECRET # "" /\ req.secret # Some(WEBHOOK_SECRET)
       THEN Send(403, "forbidden") /\ Return /\ UNCHANGED update
       ELSE /\ update' = req.body
            /\ Send(200, "ok")
            /\ pc' = "try"
            /\ UNCHANGED <<calls, error, completion, console>>
    /\ UNCHANGED <<env, other, http, req, result, auth>>

\* Variant: the secret header is not checked.
WebhookEntry_NoSecretCheck ==
    /\ pc = "entry"
    /\ IF ~TruthyString(BOT_TOKEN)
       THEN Send(500, "BOT_TOKEN missing") /\ Return /\ UNCHANGED update
       ELSE IF req.method # "POST"
       THEN Send(200, "ok") /\ Return /\ UNCHANGED update
       ELSE /\ update' = req.body
            /\ Send(200, "ok")
            /\ pc' = "try"
            /\ UNCHANGED <<calls, error, completion, console>>
    /\ UNCHANGED <<env, other, http, req, result, auth>>

\* Inbound checks; on success the update is taken from the body and the
\* delivery is acknowledged with 200.
WebhookEntry ==
    /\ pc = "entry"
    /\ IF ~TruthyString(BOT_TOKEN)
       THEN Send(500, "BOT_TOKEN missing") /\ Return /\ UNCHANGED update
       ELSE IF req.method # "POST"
       THEN Send(200, "ok") /\ Return /\ UNCHANGED update
       ELSE IF WEBHOOK_SECRET # "" /\ req.secret # Some(WEBHOOK_SECRET)
       THEN Send(403, "forbidden") /\ Return /\ UNCHANGED update
       ELSE /\ update' = req.body
            /\ Send(200, "ok")
            /\ pc' = "try"
            /\ UNCHANGED <<calls, error, completion, console>>
    /\ UNCHANGED <<env, other, http, req, result, auth>>

\* update.message?.successful_payment and update.message?.text
MessageField(u, f) == IF IsDefined(u.message) THEN Get(u.message)[f] ELSE Undefined

\* Variant: the query is answered with ok = false.
PreCheckoutBranch_Reject(u) ==
    /\ Issue(Call("answerPreCheckoutQuery",
                  [pre_checkout_query_id |-> Get(u.pre_checkout_query).id, ok |-> FALSE]),
             "L89")
    /\ UNCHANGED auth

PreCheckoutBranch(u) ==
    /\ Issue(Call("answerPreCheckoutQuery",
                  [pre_checkout_query_id |-> Get(u.pre_checkout_query).id, ok |-> TRUE]),
             "L89")
    /\ UNCHANGED auth

ThanksText(total) == [tpl |-> "received", total |-> total]

\* The log lines; the date line is left out.
LogText(from, total, payload, chargeId) ==
    [tpl |-> "payment-log",
     name |-> IF IsDefined(from) THEN Get(from).first_name ELSE "",
     username |-> IF IsDefined(from) THEN Get(from).username ELSE Undefined,
     user_id |-> IF IsDefined(from) THEN Some(Get(from).id) ELSE Undefined,
     amount |-> total, payload |-> payload, charge_id |-> chargeId]

PaymentBranch(u) ==
    LET m == Get(u.message)
        sp == Get(m.successful_payment)
    IN /\ IF ~IsDefined(m.chat)
          THEN Throw(TypeError)
          ELSE Issue(Call("sendMessage",
                          [chat_id |-> Get(m.chat).id, text |-> ThanksText(sp.total_amount)]),
                     "L105")
       /\ UNCHANGED auth

\* Variant: the log message goes to the payer's chat.
AfterThanks_LogToPayer(u) ==
    LET m == Get(u.message)
        sp == Get(m.successful_payment)
    IN IF LOG_CHAT_ID # 0
       THEN Issue(Call("sendMessage",
                       [chat_id |-> Get(m.chat).id,
                        text |-> LogText(m.from, sp.total_amount, sp.invoice_payload,
                                         sp.telegram_payment_charge_id)]),
                  "L123")
       ELSE Return

\* After the thank-you call has returned.
AfterThanks(u) ==
    LET m == Get(u.message)
        sp == Get(m.successful_payment)
    IN IF LOG_CHAT_ID # 0
       THEN Issue(Call("sendMessage",
                       [chat_id |-> LOG_CHAT_ID,
                        text |-> LogText(m.from, sp.total_amount, sp.invoice_payload,
                                         sp.telegram_payment_charge_id)]),
                  "L123")
       ELSE Return

RefusalText == [tpl |-> "admin-only"]

TextBranch(u) ==
    LET m == Get(u.message)
        text == Get(m.text)
        userId == IF IsDefined(m.from) THEN Some(Get(m.from).id) ELSE Undefined
    IN IF ~IsDefined(m.chat)
       THEN Throw(TypeError) /\ UNCHANGED auth
       ELSE LET chatId == Get(m.chat).id
            IN IF text = Chars("/start") \/ startsWith(text, Chars("/donate"))
               THEN /\ Issue(Call("sendMessage",
                                  [chat_id |-> chatId, text |-> [tpl |-> "choose-amount"],
                                   reply_markup |-> donateKeyboard]),
                             "L135")
                    /\ UNCHANGED auth
               ELSE IF startsWith(text, Chars("/balance"))
               THEN /\ auth' = Some(isAdmin(userId))
                    /\ IF ~isAdmin(userId)
                       THEN Issue(Call("sendMessage", [chat_id |-> chatId, text |-> RefusalText]), "L145")
                       ELSE Issue(Call("getMyStarBalance", [limit |-> Undefined]), "L148")
               ELSE IF startsWith(text, Chars("/tx"))
               THEN /\ auth' = Some(isAdmin(userId))
                    /\ IF ~isAdmin(userId)
                       THEN Issue(Call("sendMessage", [chat_id |-> chatId, text |-> RefusalText]), "L158")
                       ELSE Issue(Call("getStarTransactions", [limit |-> Some(10)]), "L161")
               ELSE Return /\ UNCHANGED auth

\* After the balance / the transactions have been fetched.
AfterFetch(u, tpl, value, next) ==
    Issue(Call("sendMessage",
               [chat_id |-> Get(Get(u.message).chat).id,
                text |-> [tpl |-> tpl, json |-> value]]),
          next)

\* Locals of the callback_query branch.
CallbackData(cq) == IF IsDefined(cq.data) /\ Get(cq.data) # <<>> THEN Get(cq.data) ELSE <<>>

CallbackChatId(cq) ==
    IF IsDefined(cq.message) /\ IsDefined(Get(cq.message).chat)
    THEN Some(Get(Get(cq.message).chat).id)
    ELSE Undefined

\* Number(data.split(":")[1])
CallbackAmount(cq) ==
    LET parts == split(CallbackData(cq), ":")
    IN IF Len(parts) >= 2 THEN Number(parts[2]) ELSE NaN

\* Variant: the token's prefix is not checked.
CallbackBranch_AnyPrefix(u) ==
    LET cq == Get(u.callback_query)
        chatId == CallbackChatId(cq)
    IN /\ IF TruthyNumber(chatId)
          THEN IF ~AmountsIncludes(CallbackAmount(cq))
               THEN Issue(Call("answerCallbackQuery",
                               [callback_query_id |-> cq.id, text |-> Some("Nevernaya summa")]),
                          "L182")
               ELSE Issue(Call("answerCallbackQuery",
                               [callback_query_id |-> cq.id, text |-> Undefined]),
                          "L186")
          ELSE Return
       /\ UNCHANGED auth

CallbackBranch(u) ==
    LET cq == Get(u.callback_query)
        data == CallbackData(cq)
        chatId == CallbackChatId(cq)
    IN /\ IF startsWith(data, DonatePrefix) /\ TruthyNumber(chatId)
          THEN IF ~AmountsIncludes(CallbackAmount(cq))
               THEN Issue(Call("answerCallbackQuery",
                               [callback_query_id |-> cq.id, text |-> Some("Nevernaya summa")]),
                          "L182")
               ELSE Issue(Call("answerCallbackQuery",
                               [callback_query_id |-> cq.id, text |-> Undefined]),
                          "L186")
          ELSE Return
       /\ UNCHANGED auth

\* `donate_${amount}_${Date.now()}_${Math.random().toString(16).slice(2)}`
InvoicePayload(amount, now, rnd) == [tag |-> "donate", amount |-> amount, ts |-> now, nonce |-> rnd]

\* Variant: the invoice names a payment provider.
AfterAck_ProviderToken(u) ==
    LET cq == Get(u.callback_query)
        amount == CallbackAmount(cq).v
    IN \E now \in Clock, rnd \in Nonces :
          Issue(Call("sendInvoice",
                     [chat_id |-> Get(CallbackChatId(cq)),
                      title |-> "Podderzhka proekta",
                      description |-> [tpl |-> "thanks-for", amount |-> amount],
                      payload |-> InvoicePayload(amount, now, rnd),
                      provider_token |-> "PROVIDER",
                      currency |-> "XTR",
                      prices |-> <<[label |-> "Support", amount |-> amount]>>]),
                "L194")

\* After the action has been acknowledged.
AfterAck(u) ==
    LET cq == Get(u.callback_query)
        amount == CallbackAmount(cq).v
    IN \E now \in Clock, rnd \in Nonces :
          Issue(Call("sendInvoice",
                     [chat_id |-> Get(CallbackChatId(cq)),
                      title |-> "Podderzhka proekta",
                      description |-> [tpl |-> "thanks-for", amount |-> amount],
                      payload |-> InvoicePayload(amount, now, rnd),
                      provider_token |-> "",
                      currency |-> "XTR",
                      prices |-> <<[label |-> "Support", amount |-> amount]>>]),
                "L194")

\* Variant: the action is looked at before the message text.
Dispatch_ActionBeforeText ==
    /\ pc = "try"
    /\ IF ~IsDefined(update)
       THEN Throw(TypeError) /\ UNCHANGED auth
       ELSE LET u == Get(update)
            IN IF IsDefined(u.pre_checkout_query) THEN PreCheckoutBranch(u)
               ELSE IF IsDefined(MessageField(u, "successful_payment")) THEN PaymentBranch(u)
               ELSE IF IsDefined(u.callback_query) THEN CallbackBranch(u)
               ELSE IF IsDefined(MessageField(u, "text")) /\ Get(MessageField(u, "text")) # <<>>
                    THEN TextBranch(u)
               ELSE Return /\ UNCHANGED auth
    /\ UNCHANGED <<env, other, http, req, update, result, response>>

\* The try block from its start to the first await, return or throw.
Dispatch ==
    /\ pc = "try"
    /\ IF ~IsDefined(update)
       THEN Throw(TypeError) /\ UNCHANGED auth
       ELSE LET u == Get(update)
            IN IF IsDefined(u.pre_checkout_query) THEN PreCheckoutBranch(u)
               ELSE IF IsDefined(MessageField(u, "successful_payment")) THEN PaymentBranch(u)
               ELSE IF IsDefined(MessageField(u, "text")) /\ Get(MessageField(u, "text")) # <<>>
                    THEN TextBranch(u)
               ELSE IF IsDefined(u.callback_query) THEN CallbackBranch(u)
               ELSE Return /\ UNCHANGED auth
    /\ UNCHANGED <<env, other, http, req, update, result, response>>

AwaitPoints == {"L89", "L105", "L123", "L135", "L145", "L148", "L149", "L158", "L161", "L162",
                "L182", "L186", "L194"}

\* The code after an await whose call returned value.
Continue(u, value) ==
    CASE pc = "L105" -> AfterThanks(u)
      [] pc = "L148" -> AfterFetch(u, "balance", value, "L149")
      [] pc = "L161" -> AfterFetch(u, "transactions", value, "L162")
      [] pc = "L186" -> AfterAck(u)
      [] OTHER -> Return

\* An outbound call of the webhook handler completes and tg returns.
TgReturns ==
    /\ pc \in AwaitPoints
    /\ \E r \in HttpResponses :
          LET out == tg(calls[Len(calls)].method, r)
          IN /\ ~out.threw
             /\ http' = Append(http, r)
             /\ result' = out.value
             /\ Continue(Get(update), out.value)
    /\ UNCHANGED <<env, other, req, update, response, auth>>

\* Variant: a failed call is ignored and the handler goes on.
TgThrows_GoesOn ==
    /\ pc \in AwaitPoints
    /\ \E r \in HttpResponses :
          LET out == tg(calls[Len(calls)].method, r)
          IN /\ out.threw
             /\ http' = Append(http, r)
             /\ Continue(Get(update), out.value)
    /\ UNCHANGED <<env, other, req, update, result, response, auth>>

\* An outbound call of the webhook handler completes and tg throws.
TgThrows ==
    /\ pc \in AwaitPoints
    /\ \E r \in HttpResponses :
          LET out == tg(calls[Len(calls)].method, r)
          IN /\ out.threw
             /\ http' = Append(http, r)
             /\ Throw(out.error)
    /\ UNCHANGED <<env, other, req, update, result, response, auth>>

\* Variant: the catch block rethrows.
Catch_Rethrow ==
    /\ pc = "catch"
    /\ console' = Append(console, Get(error))
    /\ pc' = "done"
    /\ completion' = "rejected"
    /\ UNCHANGED <<env, other, http, req, update, calls, result, response, auth, error>>

\* catch (e) { console.error("Webhook error:", e) }
\* Variant: the catch block answers the request with a 500.
Catch_Responds ==
    /\ pc = "catch"
    /\ console' = Append(console, Get(error))
    /\ Send(500, "error")
    /\ pc' = "done"
    /\ completion' = "returned"
    /\ UNCHANGED <<env, other, http, req, update, calls, result, auth, error>>

Catch ==
    /\ pc = "catch"
    /\ console' = Append(console, Get(error))
    /\ pc' = "done"
    /\ completion' = "returned"
    /\ UNCHANGED <<env, other, http, req, update, calls, result, response, auth, error>>

(***************************************************************************)
(* The registration handler, src/unnamed/part_000.                         *)
(***************************************************************************)
\* req.query?.key || ""
SetupKeyOf(r) == IF TruthyString(r.key) THEN Get(r.key) ELSE ""

\* `${proto}://${host}/api/telegram`
SetupUrl(r) ==
    [proto |-> IF TruthyString(r.forwarded.proto) THEN Get(r.forwarded.proto) ELSE "https",
     host |-> IF TruthyString(r.forwarded.host) THEN Get(r.forwarded.host) ELSE r.host,
     path |-> "/api/telegram"]

\* Variant: an empty setup key is compared like any other.
SetupEntry_NoEmptyKeyCheck ==
    /\ pc = "setup_entry"
    /\ IF ~TruthyString(BOT_TOKEN)
       THEN Send(500, [tpl |-> "BOT_TOKEN missing"]) /\ Return
       ELSE IF SetupKeyOf(req) # SETUP_KEY
       THEN Send(403, [tpl |-> "forbidden"]) /\ Return
       ELSE /\ Issue(Call("setWebhook",
                          [url |-> SetupUrl(req),
                           secret_token |-> IF WEBHOOK_SECRET # "" THEN Some(WEBHOOK_SECRET)
                                            ELSE Undefined,
                           drop_pending_updates |-> TRUE]),
                     "S43")
            /\ UNCHANGED response
    /\ UNCHANGED <<env, other, http, req, update, result, auth>>

SetupEntry ==
    /\ pc = "setup_entry"
    /\ IF ~TruthyString(BOT_TOKEN)
       THEN Send(500, [tpl |-> "BOT_TOKEN missing"]) /\ Return
       ELSE IF SETUP_KEY = "" \/ SetupKeyOf(req) # SETUP_KEY
       THEN Send(403, [tpl |-> "forbidden"]) /\ Return
       ELSE /\ Issue(Call("setWebhook",
                          [url |-> SetupUrl(req),
                           secret_token |-> IF WEBHOOK_SECRET # "" THEN Some(WEBHOOK_SECRET)
                                            ELSE Undefined,
                           drop_pending_updates |-> TRUE]),
                     "S43")
            /\ UNCHANGED response
    /\ UNCHANGED <<env, other, http, req, update, result, auth>>

\* The setWebhook call completes; the handler reports the outcome.
SetupSettle ==
    /\ pc = "S43"
    /\ \E r \in HttpResponses :
          LET out == tg("setWebhook", r)
          IN /\ http' = Append(http, r)
             /\ IF out.threw
                THEN /\ error' = Some(out.error)
                     /\ result' = result
                     /\ Send(500, [tpl |-> "Error", message |-> out.error])
                ELSE /\ error' = error
                     /\ result' = out.value
                     /\ Send(200, [tpl |-> "Webhook set OK", url |-> SetupUrl(req), result |-> out.value])
    /\ pc' = "done"
    /\ completion' = "returned"
    /\ UNCHANGED <<env, other, req, update, calls, auth, console>>

\* The invocation is over; the function instance waits for the next request.
\* Nothing but the module-level constants survives.
Recycle ==
    /\ pc = "done"
    /\ req' = NoRequest
    /\ pc' = "idle"
    /\ Fresh

Next ==
    \/ ReceiveWebhook
    \/ ReceiveSetup
    \/ WebhookEntry
    \/ Dispatch
    \/ TgReturns
    \/ TgThrows
    \/ Catch
    \/ SetupEntry
    \/ SetupSettle
    \/ Recycle

Spec == Init /\ [][Next]_vars

(***************************************************************************)
(* Two invocations of the function instance at once.  JavaScript runs one  *)
(* invocation until it suspends at an await or returns; the event loop     *)
(* then resumes whichever invocation it picks.  The invocations share the  *)
(* module-level constants (env) and nothing else.                          *)
(***************************************************************************)
\* The invocation that is running, as a record.
Running ==
    [req |-> req, update |-> update, pc |-> pc, calls |-> calls, http |-> http,
     result |-> result, response |-> response, auth |-> auth, error |-> error,
     console |-> console, completion |-> completion]

\* Where an invocation can be while another one runs: not started, over, or
\* suspended at an await.
Suspended == AwaitPoints \cup {"S43", "idle", "done"}

\* Variant: the outbound calls are collected in one module-level list.
Switch_SharedCalls ==
    /\ pc \in Suspended
    /\ other' = Running
    /\ req' = other.req
    /\ update' = other.update
    /\ pc' = other.pc
    /\ calls' = calls \o other.calls
    /\ http' = other.http
    /\ result' = other.result
    /\ response' = other.response
    /\ auth' = other.auth
    /\ error' = other.error
    /\ console' = other.console
    /\ completion' = other.completion
    /\ UNCHANGED env

\* The running invocation is suspended; the event loop resumes the other.
Switch ==
    /\ pc \in Suspended
    /\ other' = Running
    /\ req' = other.req
    /\ update' = other.update
    /\ pc' = other.pc
    /\ calls' = other.calls
    /\ http' = other.http
    /\ result' = other.result
    /\ response' = other.response
    /\ auth' = other.auth
    /\ error' = other.error
    /\ console' = other.console
    /\ completion' = other.completion
    /\ UNCHANGED env

ConcEnvironments ==
    {e \in Environments :
        /\ e.BOT_TOKEN = Some("123:TOKEN")
        /\ e.ADMIN_USER_ID = Some(Chars("7"))
        /\ e.LOG_CHAT_ID = Some(Chars("-100"))
        /\ e.WEBHOOK_SECRET = Undefined
        /\ e.SETUP_KEY = Some("k3y")}

ConcUpdates ==
    {Update(Some([id |-> "pcq-1"]), Undefined, Undefined),
     Update(Undefined,
            Some(Message(Some([id |-> 100]), MainFrom, Some(CHOOSE p \in Payments : TRUE), Undefined)),
            Undefined),
     Update(Undefined,
            Some(Message(Some([id |-> 100]),
                         Some([id |-> 7, first_name |-> "Ann", username |-> Undefined]),
                         Undefined, Some(Chars("/balance")))),
            Undefined),
     Update(Undefined,
            Some(Message(Some([id |-> 100]), MainFrom, Undefined, Some(Chars("/tx")))),
            Undefined),
     Update(Undefined,
            Some(Message(Some([id |-> 100]), MainFrom, Undefined, Some(Chars("/start")))),
            Undefined),
     Update(Undefined, Undefined, SomeCallback),
     Update(Undefined, Undefined, BadCallback)}

ConcWebhookRequests ==
    [handler : {"telegram"}, method : {"POST"}, secret : {Undefined},
     body : {Undefined} \cup {Some(u) : u \in ConcUpdates}]

ConcSetupRequests ==
    [handler : {"setup"}, key : {Some("k3y")},
     forwarded : {[host |-> Undefined, proto |-> Undefined]},
     host : {"internal:3000"}]

InitConc ==
    /\ Init
    /\ env \in ConcEnvironments

ReceiveConcWebhook ==
    /\ pc = "idle"
    /\ \E r \in ConcWebhookRequests : req' = r
    /\ pc' = "entry"
    /\ Fresh

ReceiveConcSetup ==
    /\ pc = "idle"
    /\ \E r \in ConcSetupRequests : req' = r
    /\ pc' = "setup_entry"
    /\ Fresh

NextConc ==
    \/ ReceiveConcWebhook
    \/ ReceiveConcSetup
    \/ WebhookEntry
    \/ Dispatch
    \/ TgReturns
    \/ TgThrows
    \/ Catch
    \/ SetupEntry
    \/ SetupSettle
    \/ Recycle
    \/ Switch

\* The synchronous code of the running invocation, which the engine runs to
\* its next await or to its end once it has started it.
SyncStep == WebhookEntry \/ Dispatch \/ Catch \/ SetupEntry

\* No completion of an outbound call and no resumption is ever forced: a
\* call may stay pending for ever.
SpecConc == InitConc /\ [][NextConc]_vars /\ WF_vars(SyncStep)

(***************************************************************************)
(* Vocabulary of the properties.                                           *)
(***************************************************************************)
\* The request is a webhook delivery that passes the inbound checks: the
\* bot token is configured, the method is POST and the secret, if one is
\* configured, matches.
WebhookPost == req.handler = "telegram" /\ TruthyString(BOT_TOKEN) /\ req.method = "POST"

SecretMatches == WEBHOOK_SECRET = "" \/ req.secret = Some(WEBHOOK_SECRET)

Accepted == WebhookPost /\ SecretMatches

\* The event of an accepted delivery with a body.
HasEvent == Accepted /\ IsDefined(req.body)

Event == Get(req.body)

\* The handler has run past its synchronous dispatch.
Dispatched == pc \in AwaitPoints \cup {"catch", "done"}

IsPrefix(s, t) == Len(s) <= Len(t) /\ s = SubSeq(t, 1, Len(s))

HasCall(method) == \E i \in 1..Len(calls) : calls[i].method = method

\* C1: for every accepted event that carries a pre-checkout query, whatever
\* else it carries, the only outbound call is one answerPreCheckoutQuery with
\* ok = true for the query's id; it is issued as soon as the event is
\* dispatched, no authorization check is made, and nothing follows it whether
\* it succeeds or fails.
C1_PreCheckoutOnlyAck ==
    (HasEvent /\ IsDefined(Event.pre_checkout_query)) =>
        /\ auth = Undefined
        /\ IsPrefix(calls, <<Call("answerPreCheckoutQuery",
                                  [pre_checkout_query_id |-> Get(Event.pre_checkout_query).id,
                                   ok |-> TRUE])>>)
        /\ (Dispatched => Len(calls) = 1)

\* A pre-checkout event that also carries a message and an action, handled to
\* the end with a failed acknowledgment.
C1_Witness ==
    /\ HasEvent
    /\ IsDefined(Event.pre_checkout_query)
    /\ IsDefined(Event.message)
    /\ IsDefined(Event.callback_query)
    /\ pc = "done"
    /\ IsDefined(error)
    /\ Len(calls) = 1

\* An action event: the callback query is the populated variant.
ActionEvent ==
    /\ HasEvent
    /\ IsDefined(Event.callback_query)
    /\ ~IsDefined(Event.pre_checkout_query)
    /\ ~IsDefined(Event.message)

Action == Get(Event.callback_query)

\* The token is donate:<decimal digits>; TokenAmount is the number written.
TokenIsDonateAmount ==
    /\ IsDefined(Action.data)
    /\ startsWith(Get(Action.data), DonatePrefix)
    /\ AllDigits(SubSeq(Get(Action.data), Len(DonatePrefix) + 1, Len(Get(Action.data))))

TokenAmount == DecimalValue(SubSeq(Get(Action.data), Len(DonatePrefix) + 1, Len(Get(Action.data))))

Allowed(n) == n \in {500, 1000, 1500, 2000, 3000, 4000, 5000}

\* C2: for every action event whose token is donate:<amount> with <amount>
\* outside the allowed set, with or without a chat identifier, no sendInvoice
\* is issued and an answerCallbackQuery for the action, carrying a rejection
\* text, is attempted.
C2_RejectAlwaysAcknowledges ==
    (ActionEvent /\ TokenIsDonateAmount /\ ~Allowed(TokenAmount)) =>
        /\ ~HasCall("sendInvoice")
        /\ Dispatched =>
              \E i \in 1..Len(calls) :
                  /\ calls[i].method = "answerCallbackQuery"
                  /\ calls[i].body.callback_query_id = Action.id
                  /\ IsDefined(calls[i].body.text)

\* A payment event: a message with a successful payment and, as the
\* platform's schema requires of every message, a chat.
PaymentEvent ==
    /\ HasEvent
    /\ ~IsDefined(Event.pre_checkout_query)
    /\ IsDefined(Event.message)
    /\ IsDefined(Get(Event.message).successful_payment)
    /\ IsDefined(Get(Event.message).chat)

ThanksAttempted ==
    \E i \in 1..Len(calls) :
        /\ calls[i].method = "sendMessage"
        /\ calls[i].body.chat_id = Get(Get(Event.message).chat).id
        /\ calls[i].body.text.tpl = "received"

LogAttempted ==
    \E i \in 1..Len(calls) :
        /\ calls[i].method = "sendMessage"
        /\ calls[i].body.chat_id = LOG_CHAT_ID
        /\ calls[i].body.text.tpl = "payment-log"

\* C3: for a payment event with a log destination configured, when the
\* handler has finished both the thank-you call and the log call have been
\* attempted, whichever of them failed, and the handler has not failed.
C3_PaymentEffectsIndependent ==
    (PaymentEvent /\ LOG_CHAT_ID # 0 /\ pc = "done") =>
        /\ ThanksAttempted
        /\ LogAttempted
        /\ completion = "returned"

\* C4: a payment event produces exactly two outbound calls when a log
\* destination is configured and exactly one when it is not, whatever the
\* outcome of the calls.
C4_PaymentCallCount ==
    (PaymentEvent /\ pc = "done") =>
        Len(calls) = IF LOG_CHAT_ID # 0 THEN 2 ELSE 1

\* A text command: a message with a text and no payment (and a chat, as the
\* schema requires); ahead of it in the dispatch there is no pre-checkout
\* query.
TextEvent ==
    /\ HasEvent
    /\ ~IsDefined(Event.pre_checkout_query)
    /\ IsDefined(Event.message)
    /\ ~IsDefined(Get(Event.message).successful_payment)
    /\ IsDefined(Get(Event.message).text)
    /\ IsDefined(Get(Event.message).chat)

EventText == Get(Get(Event.message).text)

IsBalanceCommand == startsWith(EventText, Chars("/balance"))

IsTxCommand == startsWith(EventText, Chars("/tx"))

\* The sender is the privileged user: a privileged identifier is configured
\* and the message's sender has it.
SenderPrivileged ==
    /\ ADMIN_USER_ID > 0
    /\ IsDefined(Get(Event.message).from)
    /\ Get(Get(Event.message).from).id = ADMIN_USER_ID

Refusal == Call("sendMessage", [chat_id |-> Get(Get(Event.message).chat).id, text |-> [tpl |-> "admin-only"]])

C6_AckFirstAndNeverFails ==
    Accepted =>
        /\ (pc # "entry" => response = <<[status |-> 200, body |-> "ok"]>>)
        /\ (calls # <<>> => response = <<[status |-> 200, body |-> "ok"]>>)
        /\ completion # "rejected"
        /\ (pc = "done" => completion = "returned")

\* An accepted delivery whose outbound call failed, handled to the end.
C6_Witness ==
    /\ Accepted
    /\ pc = "done"
    /\ calls # <<>>
    /\ IsDefined(error)
    /\ console # <<>>
    /\ response = <<[status |-> 200, body |-> "ok"]>>

\* C7: with an inbound secret configured, a delivery (a POST to the
\* configured bot) whose secret header is absent or different is refused with
\* 403, is never taken for processing and causes no outbound call; with no
\* secret configured a delivery is acknowledged and processed whatever the
\* header is.
C7_SecretGate ==
    WebhookPost =>
        IF WEBHOOK_SECRET # "" /\ req.secret # Some(WEBHOOK_SECRET)
        THEN /\ calls = <<>>
             /\ update = Undefined
             /\ pc \in {"entry", "done"}
             /\ (pc = "done" => response = <<[status |-> 403, body |-> "forbidden"]>>)
        ELSE pc # "entry" =>
                /\ response = <<[status |-> 200, body |-> "ok"]>>
                /\ update = req.body
                /\ (IsDefined(req.body) /\ IsDefined(Event.pre_checkout_query) /\ Dispatched
                        => HasCall("answerPreCheckoutQuery"))

\* A delivery with a wrong secret header, refused.
C7_Witness ==
    /\ WebhookPost
    /\ WEBHOOK_SECRET # ""
    /\ req.secret = Some("wrong")
    /\ IsDefined(req.body)
    /\ pc = "done"
    /\ response = <<[status |-> 403, body |-> "forbidden"]>>

\* Without a configured secret, a delivery that carries a secret header has
\* been processed.
C7_WitnessOpen ==
    /\ WebhookPost
    /\ WEBHOOK_SECRET = ""
    /\ req.secret = Some("wrong")
    /\ pc = "done"
    /\ calls # <<>>

\* The chat identifier of the message the action belongs to, if any.
ActionHasChat ==
    /\ IsDefined(Action.message)
    /\ IsDefined(Get(Action.message).chat)
    /\ Get(Get(Action.message).chat).id # 0

ActionChat == Get(Get(Action.message).chat).id

IsPlainAck(c) ==
    /\ c.method = "answerCallbackQuery"
    /\ c.body.callback_query_id = Action.id
    /\ ~IsDefined(c.body.text)

IsStarsInvoice(c, amount) ==
    /\ c.method = "sendInvoice"
    /\ c.body.chat_id = ActionChat
    /\ c.body.provider_token = ""
    /\ c.body.currency = "XTR"
    /\ Len(c.body.prices) = 1
    /\ c.body.prices[1].amount = amount
    /\ c.body.payload.tag = "donate"
    /\ c.body.payload.amount = amount
    /\ c.body.payload.ts \in Clock
    /\ c.body.payload.nonce \in Nonces

RegistrationStarted == req.handler = "setup" /\ TruthyString(BOT_TOKEN) /\ pc # "setup_entry"

KeyEqualsSetupKey == IsDefined(req.key) /\ Get(req.key) = SETUP_KEY

Forbidden == <<[status |-> 403, body |-> [tpl |-> "forbidden"]]>>

\* C9 as stated: the registration operation issues setWebhook if and only if
\* the key supplied in the request equals the configured setup key, and on a
\* mismatch it answers 403 with no outbound call.
C9_RegistersIffKeyEquals ==
    RegistrationStarted =>
        /\ HasCall("setWebhook") <=> KeyEqualsSetupKey
        /\ ~KeyEqualsSetupKey => (calls = <<>> /\ response = Forbidden)

\* C9, amended: setWebhook is issued if and only if a setup key is configured
\* (not empty) and the key supplied in the request equals it; in every other
\* case, an unset or empty setup key included, the answer is 403 and there is
\* no outbound call.
C9_RegistersIffConfiguredKeyEquals ==
    RegistrationStarted =>
        IF SETUP_KEY # "" /\ KeyEqualsSetupKey
        THEN Len(calls) = 1 /\ calls[1].method = "setWebhook"
        ELSE calls = <<>> /\ response = Forbidden

\* A registration with the right key, carried out.
C9_Witness ==
    /\ RegistrationStarted
    /\ SETUP_KEY # ""
    /\ KeyEqualsSetupKey
    /\ pc = "done"
    /\ Len(calls) = 1
    /\ Len(response) = 1
    /\ response[1].status = 200

\* The privileged-user identifier the deployment configures, as a number: a
\* numeric value is itself, an absent, empty or non-numeric one is 0.
ConfiguredAdminId ==
    CASE env.ADMIN_USER_ID = Some(<<"7">>) -> 7
      [] env.ADMIN_USER_ID = Some(<<"-", "5">>) -> 0 - 5
      [] OTHER -> 0

SenderId ==
    IF IsDefined(Get(Event.message).from) THEN Some(Get(Get(Event.message).from).id)
    ELSE Undefined

\* C10 as stated: isAdmin(userId) is true if and only if the configured
\* identifier is not zero and equals userId.
C10_IsAdminIffNonZeroMatch ==
    (req.handler = "telegram" /\ IsDefined(auth)) =>
        (Get(auth) <=> (ConfiguredAdminId # 0 /\ SenderId = Some(ConfiguredAdminId)))

\* C10, amended: isAdmin(userId) is true if and only if the configured
\* identifier is greater than zero and equals userId; a negative identifier
\* is treated as not set.
C10_IsAdminIffPositiveMatch ==
    (req.handler = "telegram" /\ IsDefined(auth)) =>
        (Get(auth) <=> (ConfiguredAdminId > 0 /\ SenderId = Some(ConfiguredAdminId)))

\* The check has run for a sender whose identifier equals a negative
\* configured identifier, and has refused.
C10_Witness ==
    /\ req.handler = "telegram"
    /\ ConfiguredAdminId < 0
    /\ IsDefined(auth)
    /\ SenderId = Some(ConfiguredAdminId)
    /\ ~Get(auth)

\* The exchange is one of the failure cases of the platform client: a
\* transport failure, a status outside 2xx, or a body without a true ok.
FailureCase(r) ==
    \/ r.transport = "failed"
    \/ r.status < 200
    \/ r.status > 299
    \/ ~IsDefined(r.json)
    \/ ~Get(r.json).ok

\* The platform's own error text when there is one, else the fallback.
FailureDescription(r) ==
    IF IsDefined(r.json) /\ IsDefined(Get(r.json).description) /\ Get(Get(r.json).description) # ""
    THEN Get(Get(r.json).description)
    ELSE "Unknown Telegram API error"

LastExchange == http[Len(http)]

\* C11: every call of tg makes one HTTP request and never a second one; when
\* the exchange is a failure case (transport failure, non-2xx, no true ok)
\* tg fails with an error that names the method and carries the platform's
\* error text or else the generic fallback; otherwise it returns the result
\* payload.
C11_TgResultOrNamedError ==
    /\ Len(http) <= Len(calls)
    /\ Len(calls) <= Len(http) + 1
    /\ http # <<>> =>
          IF FailureCase(LastExchange)
          THEN /\ IsDefined(error)
               /\ Get(error).name = "Error"
               /\ Get(error).method = calls[Len(http)].method
               /\ Get(error).description = FailureDescription(LastExchange)
          ELSE /\ ~IsDefined(error)
               /\ result = Get(LastExchange.json).result

\* The allowed amounts in their fixed order, and each one written in decimal.
AllowedAmounts == <<500, 1000, 1500, 2000, 3000, 4000, 5000>>

AmountDigits(a) ==
    CASE a = 500  -> <<"5", "0", "0">>
      [] a = 1000 -> <<"1", "0", "0", "0">>
      [] a = 1500 -> <<"1", "5", "0", "0">>
      [] a = 2000 -> <<"2", "0", "0", "0">>
      [] a = 3000 -> <<"3", "0", "0", "0">>
      [] a = 4000 -> <<"4", "0", "0", "0">>
      [] a = 5000 -> <<"5", "0", "0", "0">>

RECURSIVE Flatten(_)
Flatten(rows) == IF rows = <<>> THEN <<>> ELSE Head(rows) \o Flatten(Tail(rows))

\* The buttons are the allowed amounts, once each and in order, each with the
\* token donate:<amount>.
ButtonsAreAllowedAmounts(rows) ==
    LET buttons == Flatten(rows)
    IN /\ Len(buttons) = Len(AllowedAmounts)
       /\ \A i \in 1..Len(buttons) :
             /\ buttons[i].callback_data = DonatePrefix \o AmountDigits(AllowedAmounts[i])
             /\ buttons[i].text = AmountDigits(AllowedAmounts[i]) \o <<" ", "*">>

\* The text is /start or starts with /donate.
KeyboardCommand ==
    /\ TextEvent
    /\ (EventText = <<"/", "s", "t", "a", "r", "t">>
            \/ startsWith(EventText, <<"/", "d", "o", "n", "a", "t", "e">>))

IsKeyboardReply(c) ==
    /\ c.method = "sendMessage"
    /\ c.body.chat_id = Get(Get(Event.message).chat).id
    /\ c.body.text.tpl = "choose-amount"

\* C12 as stated: /start and /donate* produce exactly one outbound call, a
\* sendMessage whose keyboard is a six-amount grid, two buttons in every row,
\* showing the allowed amounts in order with the tokens donate:<amount>.
C12_SixAmountGrid ==
    KeyboardCommand =>
        /\ Len(calls) <= 1
        /\ (Dispatched => Len(calls) = 1)
        /\ \A i \in 1..Len(calls) :
              /\ IsKeyboardReply(calls[i])
              /\ LET rows == calls[i].body.reply_markup.inline_keyboard
                 IN /\ Len(Flatten(rows)) = 6
                    /\ \A r \in 1..Len(rows) : Len(rows[r]) = 2

\* C12, amended: the keyboard shows all seven allowed amounts, once each and
\* in order, two per row with the seventh alone in the fourth row.
C12_SevenAmountGrid ==
    KeyboardCommand =>
        /\ Len(calls) <= 1
        /\ (Dispatched => Len(calls) = 1)
        /\ \A i \in 1..Len(calls) :
              /\ IsKeyboardReply(calls[i])
              /\ LET rows == calls[i].body.reply_markup.inline_keyboard
                 IN /\ ButtonsAreAllowedAmounts(rows)
                    /\ Len(rows) = 4
                    /\ \A r \in 1..3 : Len(rows[r]) = 2
                    /\ Len(rows[4]) = 1

\* /start, handled to the end with the keyboard sent.
C12_Witness ==
    /\ KeyboardCommand
    /\ EventText = <<"/", "s", "t", "a", "r", "t">>
    /\ pc = "done"
    /\ ~IsDefined(error)
    /\ Len(calls) = 1

TokenMissing == ~IsDefined(env.BOT_TOKEN) \/ Get(env.BOT_TOKEN) = ""

\* C13: when the bot token is not configured, every request to either
\* endpoint, of any method and content, is answered with an error (500), is
\* never taken for processing and causes no outbound call.
C13_FailClosedWithoutToken ==
    (TokenMissing /\ req.handler \in {"telegram", "setup"}) =>
        /\ calls = <<>>
        /\ http = <<>>
        /\ update = Undefined
        /\ pc \in {"entry", "setup_entry", "done"}
        /\ (pc = "done" => Len(response) = 1 /\ response[1].status = 500)

\* A POST with a pre-checkout query, answered 500 by a deployment without a
\* token.
C13_Witness ==
    /\ TokenMissing
    /\ req.handler = "telegram"
    /\ req.method = "POST"
    /\ IsDefined(req.body)
    /\ IsDefined(Get(req.body).pre_checkout_query)
    /\ pc = "done"
    /\ response = <<[status |-> 500, body |-> "BOT_TOKEN missing"]>>

\* A registration request with the right key, answered 500 by a deployment
\* without a token.
C13_WitnessSetup ==
    /\ TokenMissing
    /\ req.handler = "setup"
    /\ SETUP_KEY # ""
    /\ req.key = Some(SETUP_KEY)
    /\ pc = "done"
    /\ Len(response) = 1
    /\ response[1].status = 500

\* C14: for a payment event with logging configured and both calls
\* successful, the thank-you goes to the chat of the payment message and the
\* log message to the configured log destination; both report the
\* total_amount of the event, and the log carries the event's invoice payload
\* and charge identifier unchanged.
C14_PaymentReplies ==
    (PaymentEvent /\ LOG_CHAT_ID # 0 /\ pc = "done" /\ ~IsDefined(error)) =>
        LET sp == Get(Get(Event.message).successful_payment)
        IN /\ Len(calls) = 2
           /\ calls[1].method = "sendMessage"
           /\ calls[1].body.chat_id = Get(Get(Event.message).chat).id
           /\ calls[1].body.text.tpl = "received"
           /\ calls[1].body.text.total = sp.total_amount
           /\ calls[2].method = "sendMessage"
           /\ calls[2].body.chat_id = LOG_CHAT_ID
           /\ calls[2].body.text.tpl = "payment-log"
           /\ calls[2].body.text.amount = sp.total_amount
           /\ calls[2].body.text.payload = sp.invoice_payload
           /\ calls[2].body.text.charge_id = sp.telegram_payment_charge_id

\* A payment of 500 whose payload was made for another amount, thanked and
\* logged.
C14_Witness ==
    /\ PaymentEvent
    /\ LOG_CHAT_ID # 0
    /\ Get(Get(Event.message).successful_payment).total_amount = 500
    /\ Get(Get(Event.message).successful_payment).invoice_payload = "donate_1000_1_ab"
    /\ pc = "done"
    /\ ~IsDefined(error)
    /\ Len(calls) = 2

\* The populated variants of the event.  A text is populated when it is not
\* empty (the platform sends no empty text).
HasPreCheckout == IsDefined(Event.pre_checkout_query)

HasPayment == IsDefined(Event.message) /\ IsDefined(Get(Event.message).successful_payment)

HasText ==
    /\ IsDefined(Event.message)
    /\ IsDefined(Get(Event.message).text)
    /\ Get(Get(Event.message).text) # <<>>

HasAction == IsDefined(Event.callback_query)

FirstVariant ==
    IF HasPreCheckout THEN "pre_checkout"
    ELSE IF HasPayment THEN "payment"
    ELSE IF HasText THEN "text"
    ELSE IF HasAction THEN "action"
    ELSE "none"

\* The protocol an outbound call belongs to.
ProtocolOf(c) ==
    IF c.method = "answerPreCheckoutQuery" THEN "pre_checkout"
    ELSE IF c.method \in {"answerCallbackQuery", "sendInvoice"} THEN "action"
    ELSE IF c.method \in {"getMyStarBalance", "getStarTransactions"} THEN "text"
    ELSE IF c.method = "sendMessage" /\ c.body.text.tpl \in {"received", "payment-log"} THEN "payment"
    ELSE IF c.method = "sendMessage" THEN "text"
    ELSE "other"

IsCommand(t) ==
    \/ t = <<"/", "s", "t", "a", "r", "t">>
    \/ startsWith(t, <<"/", "d", "o", "n", "a", "t", "e">>)
    \/ startsWith(t, <<"/", "b", "a", "l", "a", "n", "c", "e">>)
    \/ startsWith(t, <<"/", "t", "x">>)

\* C15: when several variants of an event are populated, only the protocol
\* of the first one in the order pre-checkout query, payment, message text,
\* action is run; a text that is no command produces no outbound call even
\* when the event also carries a donate action.
C15_FixedPriority ==
    HasEvent =>
        /\ \A i \in 1..Len(calls) : ProtocolOf(calls[i]) = FirstVariant
        /\ (Dispatched /\ FirstVariant = "pre_checkout" => Len(calls) >= 1)
        /\ (Dispatched /\ FirstVariant = "payment" /\ IsDefined(Get(Event.message).chat)
                => Len(calls) >= 1)
        /\ (FirstVariant = "text" /\ ~IsCommand(Get(Get(Event.message).text)) => calls = <<>>)

\* A text that is no command together with an allowed donate action, handled
\* to the end without a call.
C15_Witness ==
    /\ HasEvent
    /\ FirstVariant = "text"
    /\ ~IsCommand(Get(Get(Event.message).text))
    /\ HasAction
    /\ Get(Event.callback_query).data = Some(<<"d", "o", "n", "a", "t", "e", ":", "5", "0", "0">>)
    /\ pc = "done"
    /\ calls = <<>>

\* A payment with a text and an action, handled as a payment.
C15_WitnessPayment ==
    /\ HasEvent
    /\ FirstVariant = "payment"
    /\ HasText
    /\ HasAction
    /\ pc = "done"
    /\ Len(calls) >= 1

\* The action's token, the empty string when there is none.
ActionToken ==
    IF IsDefined(Get(Event.callback_query).data) THEN Get(Get(Event.callback_query).data)
    ELSE <<>>

\* An integer numeral: digits with an optional minus sign.
IsNumeral(s) == AllDigits(s) \/ (Len(s) >= 2 /\ s[1] = "-" /\ AllDigits(Tail(s)))

\* The token is donate: followed by an integer numeral.
TokenHasAmountForm ==
    /\ startsWith(ActionToken, DonatePrefix)
    /\ IsNumeral(SubSeq(ActionToken, Len(DonatePrefix) + 1, Len(ActionToken)))

NoCallNoFailure ==
    /\ calls = <<>>
    /\ completion # "rejected"
    /\ (pc = "done" => completion = "returned")

\* C16 as stated: an accepted delivery with no body, an event with no
\* populated variant, a text that is no command, or an action whose token is
\* not donate:<amount> produces no outbound call, and the handler does not
\* fail.
C16_UnrecognizedIsSilent ==
    /\ (Accepted /\ ~IsDefined(req.body)) => NoCallNoFailure
    /\ (HasEvent /\ FirstVariant = "none") => NoCallNoFailure
    /\ (HasEvent /\ FirstVariant = "text" /\ ~IsCommand(Get(Get(Event.message).text)))
          => NoCallNoFailure
    /\ (HasEvent /\ FirstVariant = "action" /\ ~TokenHasAmountForm) => NoCallNoFailure

\* C16, amended: the action case is an action whose token does not start
\* with donate: (a missing token included); every token that starts with
\* donate: is handled as a donate action, whatever follows the colon.
C16_UnrecognizedIsSilentByPrefix ==
    /\ (Accepted /\ ~IsDefined(req.body)) => NoCallNoFailure
    /\ (HasEvent /\ FirstVariant = "none") => NoCallNoFailure
    /\ (HasEvent /\ FirstVariant = "text" /\ ~IsCommand(Get(Get(Event.message).text)))
          => NoCallNoFailure
    /\ (HasEvent /\ FirstVariant = "action" /\ ~startsWith(ActionToken, DonatePrefix))
          => NoCallNoFailure

\* An action from a chat with the token other:500, handled to the end.
C16_Witness ==
    /\ HasEvent
    /\ FirstVariant = "action"
    /\ ActionToken = <<"o", "t", "h", "e", "r", ":", "5", "0", "0">>
    /\ IsDefined(Get(Event.callback_query).message)
    /\ pc = "done"
    /\ calls = <<>>
    /\ completion = "returned"

\* A delivery without a body, handled to the end: the error was caught.
C16_WitnessNoBody ==
    /\ Accepted
    /\ ~IsDefined(req.body)
    /\ pc = "done"
    /\ console # <<>>
    /\ completion = "returned"

(***************************************************************************)
(* The handlers as functions: the outbound calls an invocation that runs   *)
(* alone issues for request r when its calls all return, the i-th one      *)
(* returning vals[i].                                                      *)
(***************************************************************************)
ValueAt(vals, i) == IF i <= Len(vals) THEN vals[i] ELSE ""

AloneMessageCalls(m, vals) ==
    IF ~IsDefined(m.chat) THEN <<>>
    ELSE LET chatId == Get(m.chat).id
             userId == IF IsDefined(m.from) THEN Some(Get(m.from).id) ELSE Undefined
         IN IF IsDefined(m.successful_payment)
            THEN LET sp == Get(m.successful_payment)
                 IN <<Call("sendMessage", [chat_id |-> chatId, text |-> ThanksText(sp.total_amount)])>>
                    \o (IF LOG_CHAT_ID # 0
                        THEN <<Call("sendMessage",
                                    [chat_id |-> LOG_CHAT_ID,
                                     text |-> LogText(m.from, sp.total_amount, sp.invoice_payload,
                                                      sp.telegram_payment_charge_id)])>>
                        ELSE <<>>)
            ELSE LET text == Get(m.text)
                 IN IF text = Chars("/start") \/ startsWith(text, Chars("/donate"))
                    THEN <<Call("sendMessage",
                                [chat_id |-> chatId, text |-> [tpl |-> "choose-amount"],
                                 reply_markup |-> donateKeyboard])>>
                    ELSE IF startsWith(text, Chars("/balance"))
                    THEN IF ~isAdmin(userId)
                         THEN <<Call("sendMessage", [chat_id |-> chatId, text |-> RefusalText])>>
                         ELSE <<Call("getMyStarBalance", [limit |-> Undefined]),
                                Call("sendMessage",
                                     [chat_id |-> chatId,
                                      text |-> [tpl |-> "balance", json |-> ValueAt(vals, 1)]])>>
                    ELSE IF startsWith(text, Chars("/tx"))
                    THEN IF ~isAdmin(userId)
                         THEN <<Call("sendMessage", [chat_id |-> chatId, text |-> RefusalText])>>
                         ELSE <<Call("getStarTransactions", [limit |-> Some(10)]),
                                Call("sendMessage",
                                     [chat_id |-> chatId,
                                      text |-> [tpl |-> "transactions", json |-> ValueAt(vals, 1)]])>>
                    ELSE <<>>

\* The invoice's payload carries the time and a random suffix: they are
\* left out of the comparison.
AloneActionCalls(cq) ==
    IF startsWith(CallbackData(cq), DonatePrefix) /\ TruthyNumber(CallbackChatId(cq))
    THEN IF ~AmountsIncludes(CallbackAmount(cq))
         THEN <<Call("answerCallbackQuery",
                     [callback_query_id |-> cq.id, text |-> Some("Nevernaya summa")])>>
         ELSE LET amount == CallbackAmount(cq).v
              IN <<Call("answerCallbackQuery", [callback_query_id |-> cq.id, text |-> Undefined]),
                   Call("sendInvoice",
                        [chat_id |-> Get(CallbackChatId(cq)),
                         title |-> "Podderzhka proekta",
                         description |-> [tpl |-> "thanks-for", amount |-> amount],
                         payload |-> InvoicePayload(amount, 0, ""),
                         provider_token |-> "",
                         currency |-> "XTR",
                         prices |-> <<[label |-> "Support", amount |-> amount]>>])>>
    ELSE <<>>

AloneWebhookCalls(r, vals) ==
    IF \/ ~TruthyString(BOT_TOKEN)
       \/ r.method # "POST"
       \/ (WEBHOOK_SECRET # "" /\ r.secret # Some(WEBHOOK_SECRET))
       \/ ~IsDefined(r.body)
    THEN <<>>
    ELSE LET u == Get(r.body)
         IN IF IsDefined(u.pre_checkout_query)
            THEN <<Call("answerPreCheckoutQuery",
                        [pre_checkout_query_id |-> Get(u.pre_checkout_query).id, ok |-> TRUE])>>
            ELSE IF IsDefined(MessageField(u, "successful_payment"))
                    \/ (IsDefined(MessageField(u, "text")) /\ Get(MessageField(u, "text")) # <<>>)
            THEN AloneMessageCalls(Get(u.message), vals)
            ELSE IF IsDefined(u.callback_query) THEN AloneActionCalls(Get(u.callback_query))
            ELSE <<>>

AloneSetupCalls(r) ==
    IF ~TruthyString(BOT_TOKEN) \/ SETUP_KEY = "" \/ SetupKeyOf(r) # SETUP_KEY
    THEN <<>>
    ELSE <<Call("setWebhook",
                [url |-> SetupUrl(r),
                 secret_token |-> IF WEBHOOK_SECRET # "" THEN Some(WEBHOOK_SECRET) ELSE Undefined,
                 drop_pending_updates |-> TRUE])>>

AloneCalls(r, vals) ==
    IF r.handler = "telegram" THEN AloneWebhookCalls(r, vals)
    ELSE IF r.handler = "setup" THEN AloneSetupCalls(r)
    ELSE <<>>

\* The values the exchanges h returned, in order.
Values(h) == [i \in 1..Len(h) |-> tg("", h[i]).value]

Failures(h) == {i \in 1..Len(h) : tg("", h[i]).threw}

\* The calls an invocation that runs alone has issued for request r once
\* its exchanges so far are h: the handler stops at the first call that
\* fails, and the next call is issued when the previous one has returned.
AloneCallsAfter(r, h) ==
    LET all == AloneCalls(r, Values(h))
        n == IF Failures(h) # {} THEN Len(h)
             ELSE IF Len(all) <= Len(h) THEN Len(all) ELSE Len(h) + 1
    IN SubSeq(all, 1, n)

WithoutStamp(c) ==
    IF c.method = "sendInvoice"
    THEN [c EXCEPT !.body.payload = InvoicePayload(c.body.payload.amount, 0, "")]
    ELSE c

SameCalls(a, b) ==
    /\ Len(a) = Len(b)
    /\ \A i \in 1..Len(a) :
          /\ a[i].method = b[i].method
          /\ WithoutStamp(a[i]) = WithoutStamp(b[i])

\* Invocation v has issued the calls it issues when it runs alone.
SameAsAlone(v) ==
    IF v.pc \in {"idle", "entry", "setup_entry", "try"}
    THEN v.calls = <<>>
    ELSE SameCalls(v.calls, AloneCallsAfter(v.req, v.http))

\* The synchronous stretches of a handler, between two suspensions.
InSyncCode == pc \in {"entry", "try", "catch", "setup_entry"}

\* C17: when two events are handled concurrently, under every interleaving
\* of their steps and of the completions of their calls, each invocation has
\* issued exactly the calls it issues when it is handled alone with the same
\* call outcomes; and the running invocation always gets from its
\* synchronous code to its next suspension (its next call issued, or its
\* end), even when the other invocation's pending call never completes.
C17_ConcurrentSameAsAlone ==
    /\ [](SameAsAlone(Running) /\ SameAsAlone(other))
    /\ (InSyncCode ~> pc \in Suspended)

\* One event has been handled from start to end, both of its calls issued
\* and completed, while a call of the other event is still pending.
C17_Witness ==
    /\ other.pc \in AwaitPoints
    /\ Len(other.http) < Len(other.calls)
    /\ pc = "done"
    /\ Len(calls) = 2
    /\ Len(http) = 2
    /\ other.req # req

\* The exchanges of this event that were failure cases.
FailedExchanges == {i \in 1..Len(http) : FailureCase(http[i])}

\* The first call of a privileged /balance or /tx, and of a donate action
\* with an allowed amount, has failed.
FetchFailed ==
    /\ TextEvent
    /\ IsBalanceCommand \/ IsTxCommand
    /\ SenderPrivileged
    /\ 1 \in FailedExchanges

AcknowledgmentFailed ==
    /\ ActionEvent
    /\ Len(calls) >= 1
    /\ calls[1].method = "answerCallbackQuery"
    /\ 1 \in FailedExchanges

\* C18: once an outbound call of an event has failed no further call is
\* issued for that event, and no call is issued a second time (one exchange
\* per call, no two equal calls); a privileged /balance or /tx whose fetch
\* fails sends no reply, and a donate action whose acknowledgment fails
\* sends no invoice.
C18_StopsAtFirstFailure ==
    /\ \A i \in FailedExchanges : i = Len(http) /\ Len(calls) = i
    /\ Len(http) <= Len(calls)
    /\ Len(calls) <= Len(http) + 1
    /\ \A i, j \in 1..Len(calls) :
          (i < j /\ calls[i].method = calls[j].method) => calls[i] # calls[j]
    /\ FetchFailed => Len(calls) = 1 /\ ~HasCall("sendMessage")
    /\ AcknowledgmentFailed => Len(calls) = 1 /\ ~HasCall("sendInvoice")

\* A privileged /balance whose fetch failed, handled to the end.
C18_Witness ==
    /\ FetchFailed
    /\ IsBalanceCommand
    /\ pc = "done"
    /\ calls = <<Call("getMyStarBalance", [limit |-> Undefined])>>

\* A donate action for an allowed amount whose acknowledgment failed,
\* handled to the end.
C18_WitnessAction ==
    /\ AcknowledgmentFailed
    /\ IsPlainAck(calls[1])
    /\ pc = "done"
    /\ Len(calls) = 1

\* The buttons of the keyboard, row after row.
KeyboardButtons == Flatten(donateKeyboard.inline_keyboard)

\* The amount a button shows: the number written before the star.
ShownAmount(b) == DecimalValue(SubSeq(b.text, 1, Len(b.text) - 2))

\* The action carries the token of button b and comes from a chat.
PressedButton(b) ==
    /\ ActionEvent
    /\ ActionHasChat
    /\ Action.data = Some(b.callback_data)

\* C19: for every button of donateKeyboard, an action with that button's
\* token and a chat identifier is handled as invoice creation and never as a
\* rejection: the first call is the acknowledgment without text, and once it
\* has returned the second call is a sendInvoice whose price is the amount
\* shown on the button; conversely the price of every sendInvoice is an
\* amount shown on some button.
C19_KeyboardRoundTrip ==
    /\ \A i \in 1..Len(KeyboardButtons) :
          LET b == KeyboardButtons[i]
          IN (PressedButton(b) /\ Dispatched) =>
                /\ Len(calls) >= 1
                /\ IsPlainAck(calls[1])
                /\ (Len(http) >= 1 /\ ~FailureCase(http[1])) =>
                      Len(calls) = 2 /\ IsStarsInvoice(calls[2], ShownAmount(b))
    /\ \A j \in 1..Len(calls) :
          calls[j].method = "sendInvoice" =>
             \E i \in 1..Len(KeyboardButtons) :
                /\ Len(calls[j].body.prices) = 1
                /\ calls[j].body.prices[1].amount = ShownAmount(KeyboardButtons[i])

\* The button showing 3000 was pressed and the invoice for 3000 was sent.
C19_Witness ==
    /\ Len(KeyboardButtons) = 7
    /\ PressedButton(KeyboardButtons[5])
    /\ ShownAmount(KeyboardButtons[5]) = 3000
    /\ pc = "done"
    /\ Len(calls) = 2
    /\ IsStarsInvoice(calls[2], 3000)
    /\ FailedExchanges = {}

Response(status, body) == <<[status |-> status, body |-> body]>>

\* The header's secret differs from the configured one.
SecretMismatch == WEBHOOK_SECRET # "" /\ req.secret # Some(WEBHOOK_SECRET)

\* The response of the webhook handler, by path.
WebhookResponse ==
    IF TokenMissing THEN Response(500, "BOT_TOKEN missing")
    ELSE IF req.method # "POST" THEN Response(200, "ok")
    ELSE IF SecretMismatch THEN Response(403, "forbidden")
    ELSE Response(200, "ok")

\* The response of the registration handler once it is over, by path.
SetupResponseOk ==
    /\ Len(response) = 1
    /\ IF TokenMissing
       THEN response = Response(500, [tpl |-> "BOT_TOKEN missing"]) /\ calls = <<>>
       ELSE IF calls = <<>>
       THEN response = Forbidden
       ELSE /\ Len(calls) = 1
            /\ Len(http) = 1
            /\ IF FailureCase(http[1])
               THEN /\ response[1].status = 500
                    /\ response[1].body.tpl = "Error"
                    /\ response[1].body.message = Get(error)
               ELSE /\ response[1].status = 200
                    /\ response[1].body.tpl = "Webhook set OK"
                    /\ response[1].body.url = calls[1].body.url
                    /\ response[1].body.result = Get(http[1].json).result
    /\ (~TokenMissing /\ ~KeyEqualsSetupKey) => response = Forbidden

\* C20: every request receives exactly one HTTP response on every path of
\* both handlers.  The webhook handler answers at its entry, with 500 (token
\* missing), 200 (not a POST: nothing is processed and the secret is not
\* looked at), 403 (secret mismatch) or 200 (accepted), and sends nothing
\* more during or after the processing; the registration handler answers
\* with 500 (token missing), 403 (key mismatch), 200 with the URL and the
\* result (registration succeeded) or 500 with the failure's description
\* (registration call failed).
C20_ExactlyOneResponse ==
    /\ Len(response) <= 1
    /\ pc \in {"idle", "entry", "setup_entry", "S43"} => response = <<>>
    /\ (req.handler = "telegram" /\ pc \notin {"idle", "entry"}) =>
          /\ response = WebhookResponse
          /\ (~TokenMissing /\ req.method # "POST") => (calls = <<>> /\ update = Undefined)
    /\ (req.handler = "setup" /\ pc = "done") => SetupResponseOk

\* An accepted delivery whose processing failed and was caught: the 200
\* sent at the entry is the only response.
C20_Witness ==
    /\ Accepted
    /\ pc = "done"
    /\ console # <<>>
    /\ FailedExchanges # {}
    /\ response = Response(200, "ok")

\* A delivery that is not a POST and carries a wrong secret: 200.
C20_WitnessGet ==
    /\ req.handler = "telegram"
    /\ pc = "done"
    /\ ~TokenMissing
    /\ req.method = "GET"
    /\ SecretMismatch
    /\ response = Response(200, "ok")

\* A registration whose call failed: 500 with the description.
C20_WitnessSetup ==
    /\ req.handler = "setup"
    /\ pc = "done"
    /\ Len(http) = 1
    /\ FailureCase(http[1])
    /\ Len(response) = 1
    /\ response[1].status = 500
    /\ response[1].body.message.description = "Bad Request: chat not found"

====
